---- MODULE Spec2Model ----
(***************************************************************************)
(* Layout Intelligence pipeline of powerpoint-maker:                       *)
(*   backend/app/services/layout_intelligence.py                           *)
(*   backend/app/services/layout_mapper.py                                 *)
(*   backend/app/services/layout_catalog.py                                *)
(*   backend/app/schemas.py                                                *)
(*   backend/app/api/routes.py  (layout_intelligence_endpoint)             *)
(*                                                                         *)
(* Representation of Python values                                         *)
(*   - short strings that the code inspects character by character (layout *)
(*     and layout-type names) are sequences of one-character strings;      *)
(*   - long texts of which the code only takes len() (titles, bodies,      *)
(*     bullets, notes) are records [s |-> tag, n |-> length];              *)
(*   - Optional[T] is a sequence of zero (None) or one element;            *)
(*   - an exception is a record [type, msg].                               *)
(***************************************************************************)
EXTENDS Integers, Sequences, FiniteSets, TLC

----------------------------------------------------------------------------
(* Bounds of the model *)

\* longest list of template layouts handed to build_mapping on its own
MaxLayouts == 2
MaxSlides == 2
MaxBullets == 4
BudgetHorizon == 30
MaxRequests == 2
\* the clock stops advancing here (seconds since the request arrived)
MaxNow == 75
\* granularity of the clock (seconds)
ClockStep == 5

----------------------------------------------------------------------------
(* Generic helpers *)

Range(f) == {f[i] : i \in DOMAIN f}

RECURSIVE SumSeq(_)
SumSeq(s) == IF s = <<>> THEN 0 ELSE Head(s) + SumSeq(Tail(s))

Max(a, b) == IF a >= b THEN a ELSE b

Abs(a) == IF a >= 0 THEN a ELSE -a

\* sequences over S of length lo..hi
SeqsOf(S, lo, hi) == UNION {[1..n -> S] : n \in lo..hi}

----------------------------------------------------------------------------
(* Character strings: str.lower, str.replace, str.split, `in` *)

UpperChars == <<"A","B","C","D","E","F","G","H","I","J","K","L","M",
                "N","O","P","Q","R","S","T","U","V","W","X","Y","Z">>

LowerChars == <<"a","b","c","d","e","f","g","h","i","j","k","l","m",
                "n","o","p","q","r","s","t","u","v","w","x","y","z">>

LowerChar(c) ==
    IF \E i \in DOMAIN UpperChars : UpperChars[i] = c
    THEN LowerChars[CHOOSE i \in DOMAIN UpperChars : UpperChars[i] = c]
    ELSE c

\* str.lower()
Lower(s) == [i \in DOMAIN s |-> LowerChar(s[i])]

\* str.replace(old, new) for one-character old and new
Replace(s, old, new) == [i \in DOMAIN s |-> IF s[i] = old THEN new ELSE s[i]]

\* str.split(): split on runs of blanks, no empty words
RECURSIVE SplitFrom(_, _, _)
SplitFrom(s, i, word) ==
    IF i > Len(s)
    THEN IF word = <<>> THEN <<>> ELSE <<word>>
    ELSE IF s[i] = " "
         THEN IF word = <<>>
              THEN SplitFrom(s, i + 1, <<>>)
              ELSE <<word>> \o SplitFrom(s, i + 1, <<>>)
         ELSE SplitFrom(s, i + 1, Append(word, s[i]))

Split(s) == SplitFrom(s, 1, <<>>)

\* `k in s` for strings: k is a contiguous substring of s
Contains(s, k) ==
    \E i \in 0..(Len(s) - Len(k)) : SubSeq(s, i + 1, i + Len(k)) = k

----------------------------------------------------------------------------
(* layout_catalog.py: LAYOUT_CATALOG *)

Name_TitleSlide    == <<"T","i","t","l","e"," ","S","l","i","d","e">>
Name_TitleBullets  == <<"T","i","t","l","e"," ","+"," ","B","u","l","l","e","t","s">>
Name_SectionHeader == <<"S","e","c","t","i","o","n"," ","H","e","a","d","e","r">>
Name_TwoColumn     == <<"T","w","o","-","C","o","l","u","m","n">>
Name_Quote         == <<"Q","u","o","t","e","/","H","i","g","h","l","i","g","h","t">>
Name_BulletsOnly   == <<"B","u","l","l","e","t","s"," ","O","n","l","y">>
Name_Summary       == <<"S","u","m","m","a","r","y","/","C","o","n","c","l","u","s","i","o","n">>

LayoutTypeDefinition(id, name, placeholders, capacity) ==
    [id |-> id, name |-> name, primary_placeholders |-> placeholders,
     max_text_capacity |-> capacity]

LAYOUT_CATALOG == <<
    LayoutTypeDefinition(1, Name_TitleSlide,    <<"TITLE", "SUBTITLE">>,     150),
    LayoutTypeDefinition(2, Name_TitleBullets,  <<"TITLE", "BODY">>,         800),
    LayoutTypeDefinition(3, Name_SectionHeader, <<"TITLE">>,                 120),
    LayoutTypeDefinition(4, Name_TwoColumn,     <<"TITLE", "BODY", "BODY">>, 900),
    LayoutTypeDefinition(5, Name_Quote,         <<"TITLE", "BODY">>,         300),
    LayoutTypeDefinition(6, Name_BulletsOnly,   <<"BODY">>,                  800),
    LayoutTypeDefinition(7, Name_Summary,       <<"TITLE", "BODY">>,         500) >>

\* variant: the catalog handed out lacks the two-column type
get_all_layouts_WithoutTwoColumn ==
    SelectSeq(LAYOUT_CATALOG, LAMBDA t : t.id # 4)

\* LayoutTemplateCatalog.get_all_layouts: a copy of the catalog list
get_all_layouts == LAYOUT_CATALOG

----------------------------------------------------------------------------
(* schemas.py: LayoutInfo, as produced by the template analysis *)

LayoutInfo(index, name, placeholder_types) ==
    [index |-> index, name |-> name, placeholders |-> placeholder_types]

LName_TitleSlide == <<"T","i","t","l","e"," ","S","l","i","d","e">>
LName_Content    == <<"T","i","t","l","e"," ","a","n","d"," ","C","o","n","t","e","n","t">>
LName_TwoContent == <<"T","W","O"," ","C","O","L","U","M","N","S">>
LName_Blank      == <<"B","l","a","n","k">>
LName_Picture    == <<"P","i","c","t","u","r","e">>

\* layouts the model draws template layout lists from
SampleLayouts == {
    LayoutInfo(0, LName_TitleSlide, <<"TITLE", "SUBTITLE">>),
    LayoutInfo(1, LName_Content,    <<"TITLE", "BODY">>),
    LayoutInfo(2, LName_TwoContent, <<"TITLE", "BODY", "BODY">>),
    LayoutInfo(3, LName_Blank,      <<>>),
    LayoutInfo(5, LName_Picture,    <<"PICTURE", "PICTURE", "PICTURE">>) }

----------------------------------------------------------------------------
(* layout_mapper.py *)

FALLBACK_PRIORITY ==
    [t \in 1..7 |->
        CASE t = 1 -> <<2, 3>>
          [] t = 2 -> <<6, 7>>
          [] t = 3 -> <<1, 2>>
          [] t = 4 -> <<2, 6>>
          [] t = 5 -> <<2, 6>>
          [] t = 6 -> <<2, 7>>
          [] t = 7 -> <<2, 6>>]

\* LayoutTypeMapper._score_layout_match
\* variant: the name bonus is added for every keyword found
_score_layout_match_BonusPerKeyword(layout, layout_type) ==
    LET template_placeholder_types == layout.placeholders
        expected == layout_type.primary_placeholders
        matches == Cardinality({i \in DOMAIN expected :
                        \E j \in DOMAIN template_placeholder_types :
                            template_placeholder_types[j] = expected[i]})
        count_diff == Abs(Len(template_placeholder_types) - Len(expected))
        layout_name_lower == Lower(layout.name)
        type_name_lower == Lower(layout_type.name)
        words == Split(Replace(Replace(type_name_lower, "/", " "), "-", " "))
        found == {k \in DOMAIN words :
                     Len(words[k]) > 3 /\ Contains(layout_name_lower, words[k])}
    IN  10 * matches - 3 * count_diff + 5 * Cardinality(found)

_score_layout_match(layout, layout_type) ==
    LET template_placeholder_types == layout.placeholders
        expected == layout_type.primary_placeholders
        matches == Cardinality({i \in DOMAIN expected :
                        \E j \in DOMAIN template_placeholder_types :
                            template_placeholder_types[j] = expected[i]})
        count_diff == Abs(Len(template_placeholder_types) - Len(expected))
        layout_name_lower == Lower(layout.name)
        type_name_lower == Lower(layout_type.name)
        words == Split(Replace(Replace(type_name_lower, "/", " "), "-", " "))
        type_keywords == {words[i] : i \in {k \in DOMAIN words : Len(words[k]) > 3}}
        bonus == IF \E keyword \in type_keywords : Contains(layout_name_lower, keyword)
                 THEN 5 ELSE 0
    IN  10 * matches - 3 * count_diff + bonus

\* the update of (best_score, best_index) by the inner loop of build_mapping
RECURSIVE BestOver(_, _, _, _)
BestOver(layouts, layout_type, best_score, best_index) ==
    IF layouts = <<>>
    THEN [score |-> best_score, index |-> best_index]
    ELSE LET layout == Head(layouts)
             score == _score_layout_match(layout, layout_type)
         IN  IF score > best_score
             THEN BestOver(Tail(layouts), layout_type, score, layout.index)
             ELSE BestOver(Tail(layouts), layout_type, best_score, best_index)

\* variant: a type that no layout scores above the initial best_score is
\* left out of the mapping
RECURSIVE BuildFrom_SkipUnmatched(_, _, _)
BuildFrom_SkipUnmatched(layouts, catalog, mapping) ==
    IF catalog = <<>>
    THEN mapping
    ELSE LET layout_type == Head(catalog)
             best == BestOver(layouts, layout_type, -1, 0)
             key == layout_type.id
             updated == [k \in (DOMAIN mapping) \cup {key} |->
                            IF k = key THEN best.index ELSE mapping[k]]
         IN  BuildFrom_SkipUnmatched(layouts, Tail(catalog),
                                     IF best.score > -1 THEN updated ELSE mapping)

\* a mapping (Python dict) is a function from its keys
RECURSIVE BuildFrom(_, _, _)
BuildFrom(layouts, catalog, mapping) ==
    IF catalog = <<>>
    THEN mapping
    ELSE LET layout_type == Head(catalog)
             best == BestOver(layouts, layout_type, -1, 0)
             key == layout_type.id
             updated == [k \in (DOMAIN mapping) \cup {key} |->
                            IF k = key THEN best.index ELSE mapping[k]]
         IN  BuildFrom(layouts, Tail(catalog), updated)

\* the empty dict
EmptyMapping == [k \in {} |-> 0]

\* LayoutTypeMapper.build_mapping
build_mapping(layouts, catalog) == BuildFrom(layouts, catalog, EmptyMapping)

----------------------------------------------------------------------------
(* Texts and Optional values *)

\* a text of which the code only takes the length: tag and len()
Str(s, n) == [s |-> s, n |-> n]

len(t) == t.n

None == <<>>

Some(v) == <<v>>

\* truthiness of an Optional[str]: neither None nor ""
Truthy(opt) == opt # None /\ len(opt[1]) > 0

----------------------------------------------------------------------------
(* schemas.py: LayoutIntelligenceBullet, LayoutIntelligenceSlide,
   LayoutIntelligencePlan *)

Bullet(text, level) == [text |-> text, level |-> level]

Slide(layout_type_id, title, body_text, bullets, right_bullets, speaker_notes) ==
    [layout_type_id |-> layout_type_id, title |-> title, body_text |-> body_text,
     bullets |-> bullets, right_bullets |-> right_bullets,
     speaker_notes |-> speaker_notes]

\* field constraints of LayoutIntelligenceBullet
BulletValid(b) ==
    /\ len(b.text) >= 1 /\ len(b.text) <= 200
    /\ b.level >= 0 /\ b.level <= 2

\* variant: the columns may differ by three bullets
validate_two_column_UpToThree(slide) ==
    slide.layout_type_id = 4 =>
        /\ slide.bullets # <<>>
        /\ slide.right_bullets # <<>>
        /\ ~(Abs(Len(slide.bullets) - Len(slide.right_bullets)) > 3)

\* LayoutIntelligenceSlide.validate_two_column (model_validator, mode="after")
validate_two_column(slide) ==
    slide.layout_type_id = 4 =>
        /\ slide.bullets # <<>>
        /\ slide.right_bullets # <<>>
        /\ ~(Abs(Len(slide.bullets) - Len(slide.right_bullets)) > 2)

\* field constraints of LayoutIntelligenceSlide, then its model validator
SlideValid(slide) ==
    /\ slide.layout_type_id >= 1 /\ slide.layout_type_id <= 7
    /\ len(slide.title) >= 1 /\ len(slide.title) <= 100
    /\ (slide.body_text # None => len(slide.body_text[1]) <= 800)
    /\ \A i \in DOMAIN slide.bullets : BulletValid(slide.bullets[i])
    /\ \A i \in DOMAIN slide.right_bullets : BulletValid(slide.right_bullets[i])
    /\ (slide.speaker_notes # None => len(slide.speaker_notes[1]) <= 500)
    /\ validate_two_column(slide)

\* LayoutIntelligencePlan.model_validate on a parsed JSON document
PlanValid(doc) ==
    /\ doc.complete
    /\ len(doc.presentation_title) >= 1 /\ len(doc.presentation_title) <= 100
    /\ Len(doc.slides) >= 1 /\ Len(doc.slides) <= 20
    /\ \A i \in DOMAIN doc.slides : SlideValid(doc.slides[i])

Plan(presentation_title, slides) ==
    [presentation_title |-> presentation_title, slides |-> slides]

NoPlan == Plan(Str("", 0), <<>>)

\* schemas.py: BulletPoint(text=b.text, level=b.level)
BulletPoint(b) == [text |-> b.text, level |-> b.level]

\* variant: a body text that is the empty string is kept as a bullet
to_slide_content_BodyNotNone(slide, layout_index) ==
    LET bullet_points == IF slide.body_text # None THEN <<slide.body_text[1]>> ELSE <<>>
        mapped_bullets ==
            IF slide.bullets # <<>>
            THEN Some([i \in DOMAIN slide.bullets |-> BulletPoint(slide.bullets[i])])
            ELSE None
        mapped_right_bullets ==
            IF slide.right_bullets # <<>>
            THEN Some([i \in DOMAIN slide.right_bullets |-> BulletPoint(slide.right_bullets[i])])
            ELSE None
    IN  [layout_index |-> layout_index, title |-> slide.title,
         bullet_points |-> bullet_points, bullets |-> mapped_bullets,
         bullets_right |-> mapped_right_bullets]

\* LayoutIntelligenceSlide.to_slide_content
to_slide_content(slide, layout_index) ==
    LET bullet_points == IF Truthy(slide.body_text) THEN <<slide.body_text[1]>> ELSE <<>>
        mapped_bullets ==
            IF slide.bullets # <<>>
            THEN Some([i \in DOMAIN slide.bullets |-> BulletPoint(slide.bullets[i])])
            ELSE None
        mapped_right_bullets ==
            IF slide.right_bullets # <<>>
            THEN Some([i \in DOMAIN slide.right_bullets |-> BulletPoint(slide.right_bullets[i])])
            ELSE None
    IN  [layout_index |-> layout_index, title |-> slide.title,
         bullet_points |-> bullet_points, bullets |-> mapped_bullets,
         bullets_right |-> mapped_right_bullets]

----------------------------------------------------------------------------
(* layout_intelligence.py: InputValidator *)

\* the user text: leading blanks, a core that starts and ends with a
\* non-blank character, trailing blanks
UserText(lead, core, trail) == [lead |-> lead, core |-> core, trail |-> trail]

TextLen(text) == text.lead + text.core + text.trail

\* len(text.strip())
StripLen(text) == text.core

\* variant: the ceiling is exclusive
InputValidator_validate_Exclusive(text) ==
    IF TextLen(text) = 0 \/ StripLen(text) = 0
    THEN "Input text cannot be empty"
    ELSE IF TextLen(text) >= 10000
         THEN "Input text exceeds maximum length of 10000 characters"
         ELSE "ok"

\* InputValidator.validate: "ok" or the message of the ValueError raised
InputValidator_validate(text) ==
    IF TextLen(text) = 0 \/ StripLen(text) = 0
    THEN "Input text cannot be empty"
    ELSE IF TextLen(text) > 10000
         THEN "Input text exceeds maximum length of 10000 characters"
         ELSE "ok"

----------------------------------------------------------------------------
(* layout_intelligence.py: OverflowValidator *)

\* OverflowValidator._calculate_total_chars
\* variant: the speaker notes count as displayed text
_calculate_total_chars_WithNotes(slide) ==
    len(slide.title)
    + (IF Truthy(slide.body_text) THEN len(slide.body_text[1]) ELSE 0)
    + SumSeq([i \in DOMAIN slide.bullets |-> len(slide.bullets[i].text)])
    + SumSeq([i \in DOMAIN slide.right_bullets |-> len(slide.right_bullets[i].text)])
    + (IF Truthy(slide.speaker_notes) THEN len(slide.speaker_notes[1]) ELSE 0)

\* OverflowValidator._calculate_total_chars
_calculate_total_chars(slide) ==
    len(slide.title)
    + (IF Truthy(slide.body_text) THEN len(slide.body_text[1]) ELSE 0)
    + SumSeq([i \in DOMAIN slide.bullets |-> len(slide.bullets[i].text)])
    + SumSeq([i \in DOMAIN slide.right_bullets |-> len(slide.right_bullets[i].text)])

\* capacity_map.get(layout_type_id, 1000); in a dict comprehension the last
\* entry with a given id wins
CapacityOf(catalog, layout_type_id) ==
    LET hits == {i \in DOMAIN catalog : catalog[i].id = layout_type_id}
    IN  IF hits = {} THEN 1000
        ELSE catalog[CHOOSE i \in hits : \A j \in hits : j <= i].max_text_capacity

\* variant: a slide exactly at capacity is reported as overflowing
OverflowResult_Inclusive(idx, slide, catalog) ==
    LET max_capacity == CapacityOf(catalog, slide.layout_type_id)
        total_chars == _calculate_total_chars(slide)
    IN  [slide_index |-> idx,
         is_overflow |-> total_chars >= max_capacity,
         total_chars |-> total_chars,
         max_capacity |-> max_capacity,
         overflow_amount |-> Max(0, total_chars - max_capacity)]

\* one OverflowResult; slide_index is 0-based as in enumerate()
OverflowResult(idx, slide, catalog) ==
    LET max_capacity == CapacityOf(catalog, slide.layout_type_id)
        total_chars == _calculate_total_chars(slide)
    IN  [slide_index |-> idx,
         is_overflow |-> total_chars > max_capacity,
         total_chars |-> total_chars,
         max_capacity |-> max_capacity,
         overflow_amount |-> Max(0, total_chars - max_capacity)]

\* OverflowValidator.validate
OverflowValidator_validate(slides, catalog) ==
    [i \in DOMAIN slides |-> OverflowResult(i - 1, slides[i], catalog)]

\* any(result.is_overflow for result in overflow_results)
AnyOverflow(results) == \E i \in DOMAIN results : results[i].is_overflow

----------------------------------------------------------------------------
(* layout_intelligence.py: TimeoutBudget *)

\* TimeoutBudget.remaining_seconds at clock value t
remaining_seconds(dl, t) == dl - t

\* variant: exactly min_seconds left is not enough
has_time_Strict(dl, t, min_seconds) == remaining_seconds(dl, t) > min_seconds

\* TimeoutBudget.has_time at clock value t
has_time(dl, t, min_seconds) == remaining_seconds(dl, t) >= min_seconds

----------------------------------------------------------------------------
(* layout_intelligence.py: prompts.  A prompt is the record of the parts the
   f-string interpolates; the fixed instructions are left out. *)

NoPrompt ==
    [kind |-> "none", open_tag |-> <<>>, close_tag |-> <<>>, text |-> UserText(0, 0, 0),
     overflow_summary |-> <<>>, slides |-> <<>>, feedback |-> <<>>]

\* secrets.token_hex(8)
Salts == {"3f9a", "c07e"}

\* variant: the closing tag does not carry the salt
_build_content_structuring_prompt_PlainClose(text, session_salt) ==
    [kind |-> "structuring",
     open_tag |-> <<"user_content", session_salt>>,
     close_tag |-> <<"user_content">>,
     text |-> text,
     overflow_summary |-> <<>>, slides |-> <<>>, feedback |-> <<>>]

\* LayoutIntelligenceService._build_content_structuring_prompt: the tags
\* <user_content_{session_salt}> and </user_content_{session_salt}> and the
\* text between them
_build_content_structuring_prompt(text, session_salt) ==
    [kind |-> "structuring",
     open_tag |-> <<"user_content", session_salt>>,
     close_tag |-> <<"user_content", session_salt>>,
     text |-> text,
     overflow_summary |-> <<>>, slides |-> <<>>, feedback |-> <<>>]

\* the overflow_summary lines: one per overflowing result, in order
RECURSIVE OverflowSummary(_, _)
OverflowSummary(slides, results) ==
    IF results = <<>>
    THEN <<>>
    ELSE LET result == Head(results)
             rest == OverflowSummary(slides, Tail(results))
         IN  IF result.is_overflow
             THEN <<[slide_no |-> result.slide_index + 1,
                     title |-> slides[result.slide_index + 1].title,
                     total_chars |-> result.total_chars,
                     max_capacity |-> result.max_capacity,
                     overflow_amount |-> result.overflow_amount]>> \o rest
             ELSE rest

\* variant: the summary reports the total size where the overflow belongs
_build_overflow_resolution_prompt_Total(slides, overflow_results) ==
    [kind |-> "resolution", open_tag |-> <<>>, close_tag |-> <<>>, text |-> UserText(0, 0, 0),
     overflow_summary |->
         LET summary == OverflowSummary(slides, overflow_results)
         IN  [i \in DOMAIN summary |->
                 [summary[i] EXCEPT !.overflow_amount = summary[i].total_chars]],
     slides |-> slides, feedback |-> <<>>]

\* LayoutIntelligenceService._build_overflow_resolution_prompt
_build_overflow_resolution_prompt(slides, overflow_results) ==
    [kind |-> "resolution", open_tag |-> <<>>, close_tag |-> <<>>, text |-> UserText(0, 0, 0),
     overflow_summary |-> OverflowSummary(slides, overflow_results),
     slides |-> slides, feedback |-> <<>>]

\* the retry prompt of _call_llm_with_validation: the previous prompt with
\* the error details appended
RetryPrompt(prompt, error_details) ==
    [prompt EXCEPT !.feedback = Append(@, error_details)]

----------------------------------------------------------------------------
(* layout_mapper.py: LayoutTypeMapper.map_type_to_index.  The result is the
   index returned, with the fallback type used (0 for a direct hit), or the
   ValueError raised. *)

\* first id of the chain that is a key of the mapping, 0 if there is none
\* variant: the chain is searched from its end
RECURSIVE FirstMapped_Last(_, _)
FirstMapped_Last(chain, mapping) ==
    IF chain = <<>> THEN 0
    ELSE IF chain[Len(chain)] \in DOMAIN mapping THEN chain[Len(chain)]
         ELSE FirstMapped_Last(SubSeq(chain, 1, Len(chain) - 1), mapping)

\* the first type of the chain that is a key of the mapping (0: none)
RECURSIVE FirstMapped(_, _)
FirstMapped(chain, mapping) ==
    IF chain = <<>> THEN 0
    ELSE IF Head(chain) \in DOMAIN mapping THEN Head(chain)
         ELSE FirstMapped(Tail(chain), mapping)

\* variant: without compatible layout the first layout is returned
map_type_to_index_DefaultZero(layout_type_id, mapping) ==
    LET fallback_chain == IF layout_type_id \in DOMAIN FALLBACK_PRIORITY
                          THEN FALLBACK_PRIORITY[layout_type_id] ELSE <<>>
        fallback_type_id == FirstMapped(fallback_chain, mapping)
    IN  IF layout_type_id \in DOMAIN mapping
        THEN [raised |-> FALSE, index |-> mapping[layout_type_id],
              fallback_type |-> 0, chain |-> <<>>]
        ELSE IF fallback_type_id # 0
             THEN [raised |-> FALSE, index |-> mapping[fallback_type_id],
                   fallback_type |-> fallback_type_id, chain |-> fallback_chain]
             ELSE [raised |-> FALSE, index |-> 0,
                   fallback_type |-> 0, chain |-> fallback_chain]

\* LayoutTypeMapper.map_type_to_index: the index returned, or the ValueError
\* raised with the chain it names; fallback_type is what logger.warning
\* reports when a fallback was used (0: none)
map_type_to_index(layout_type_id, mapping) ==
    LET fallback_chain == IF layout_type_id \in DOMAIN FALLBACK_PRIORITY
                          THEN FALLBACK_PRIORITY[layout_type_id] ELSE <<>>
        fallback_type_id == FirstMapped(fallback_chain, mapping)
    IN  IF layout_type_id \in DOMAIN mapping
        THEN [raised |-> FALSE, index |-> mapping[layout_type_id],
              fallback_type |-> 0, chain |-> <<>>]
        ELSE IF fallback_type_id # 0
             THEN [raised |-> FALSE, index |-> mapping[fallback_type_id],
                   fallback_type |-> fallback_type_id, chain |-> fallback_chain]
             ELSE [raised |-> TRUE, index |-> 0,
                   fallback_type |-> 0, chain |-> fallback_chain]

----------------------------------------------------------------------------
(* Exceptions and their classes *)

Exc(type, msg) == [type |-> type, msg |-> msg]

NoExc == Exc("", "")

BudgetError == Exc("ValueError", "Insufficient time remaining for retry (< 15s)")

\* isinstance(e, ValueError): json.JSONDecodeError and pydantic's
\* ValidationError are subclasses of ValueError
IsValueError(e) == e.type \in {"ValueError", "JSONDecodeError", "ValidationError"}

\* the except clauses of layout_intelligence_endpoint, in order
StatusFor(e) ==
    IF e.type = "TimeoutError" THEN 504
    ELSE IF IsValueError(e) THEN 422
    ELSE 500

----------------------------------------------------------------------------
(* Inputs of the model *)

\* config.py: Settings.layout_intelligence_timeout (default); also the
\* default of the timeout_seconds parameter of process()
LayoutIntelligenceTimeout == 60

\* the floor of every budget query: has_time(min_seconds=15)
RetryFloor == 15

\* variant: one retry too many
StructuringRetries_Three == 2 + 1

\* process(): max_retries of the structuring call
StructuringRetries == 2

\* variant: a resolution round retries as often as the structuring call
ResolutionRetries_Two == 1 + 1

\* process(): max_retries of a resolution call
ResolutionRetries == 1

\* process(): max_resolution_attempts
\* variant: a third resolution round
MaxResolutionAttempts_Three == 2 + 1

MaxResolutionAttempts == 2

\* variant: the budget is consulted from the second retry on only
BudgetBlocksRetry_FromSecond(a, dl, t) == a > 1 /\ ~has_time(dl, t, RetryFloor)

\* _call_llm_with_validation: the budget check before a retry
BudgetBlocksRetry(a, dl, t) == a > 0 /\ ~has_time(dl, t, RetryFloor)

\* variant: `or` for `and`
ShouldResolve_Or(ovf, dl, t) == ovf \/ has_time(dl, t, RetryFloor)

\* process(): the condition under which overflow resolution is entered
ShouldResolve(ovf, dl, t) == ovf /\ has_time(dl, t, RetryFloor)

\* variant: the loop does not consult the budget
LoopContinues_NoBudget(ovf, ra, dl, t) == ovf /\ ra < MaxResolutionAttempts

\* process(): the condition of the resolution loop
LoopContinues(ovf, ra, dl, t) ==
    ovf /\ ra < MaxResolutionAttempts /\ has_time(dl, t, RetryFloor)

Texts == {
    UserText(0, 0, 0),
    UserText(3, 0, 0),
    UserText(0, 1, 0),
    UserText(1, 9998, 1),
    UserText(0, 10001, 0),
    UserText(2, 9999, 0) }

\* the analysed layouts of a template: index is the position in the template
DefaultTemplate == <<
    LayoutInfo(0, LName_TitleSlide, <<"TITLE", "SUBTITLE">>),
    LayoutInfo(1, LName_Content,    <<"TITLE", "BODY">>),
    LayoutInfo(2, LName_TwoContent, <<"TITLE", "BODY", "BODY">>) >>

TemplateLists == { <<>>, DefaultTemplate }

\* slides the LLM may answer with
S_Fit      == Slide(2, Str("Intro", 11), Some(Str("Short body", 10)), <<>>, <<>>, None)
S_AtCap    == Slide(3, Str("Agenda", 100), Some(Str("b", 20)), <<>>, <<>>, Some(Str("notes", 500)))
S_Over     == Slide(2, Str("Budget", 100), Some(Str("B", 750)), <<>>, <<>>, None)
S_OverBy1  == Slide(3, Str("Risks", 100), Some(Str("r", 21)), <<>>, <<>>, None)
S_TwoCol   == Slide(4, Str("Pros and cons", 13),
                    None,
                    <<Bullet(Str("p1", 200), 0), Bullet(Str("p2", 150), 1), Bullet(Str("p3", 5), 2)>>,
                    <<Bullet(Str("c1", 200), 0)>>,
                    None)
S_BadTwoCol == Slide(4, Str("Before and after", 16), None,
                     <<Bullet(Str("x", 10), 0)>>, <<>>, None)

\* an LLM response: a text (JSON or not, complete or not) or an error raised
\* by ainvoke
Response(kind, json, complete, title, slides) ==
    [kind |-> kind, json |-> json, complete |-> complete,
     presentation_title |-> title, slides |-> slides]

Resp_NotJson    == Response("text", FALSE, FALSE, Str("", 0), <<>>)
Resp_Incomplete == Response("text", TRUE, FALSE, Str("", 0), <<>>)
Resp_BadTwoCol  == Response("text", TRUE, TRUE, Str("Deck", 4), <<S_Fit, S_BadTwoCol>>)
Resp_Fit        == Response("text", TRUE, TRUE, Str("Deck", 4), <<S_Fit, S_AtCap>>)
Resp_Over       == Response("text", TRUE, TRUE, Str("Deck", 4), <<S_Fit, S_Over>>)
Resp_StillOver  == Response("text", TRUE, TRUE, Str("Deck", 4), <<S_OverBy1, S_TwoCol>>)
Resp_Raise      == Response("raise", FALSE, FALSE, Str("", 0), <<>>)

Responses == { Resp_NotJson, Resp_Incomplete, Resp_BadTwoCol,
               Resp_Fit, Resp_Over, Resp_StillOver, Resp_Raise }

\* the catalogs build_mapping is applied to on its own
Catalogs == {
    LAYOUT_CATALOG,
    SubSeq(LAYOUT_CATALOG, 1, 3),
    SubSeq(LAYOUT_CATALOG, 4, 7),
    <<LAYOUT_CATALOG[6], LAYOUT_CATALOG[2], LAYOUT_CATALOG[6]>>,
    <<LAYOUT_CATALOG[5]>>,
    <<>> }

\* mappings returned by the build_mapping of a mapper other than
\* LayoutTypeMapper handed to the service: the one of the unit test, and one
\* that only knows the section header
StubMappings == {(1 :> 0) @@ (2 :> 1), (3 :> 2)}

----------------------------------------------------------------------------
(* State *)

VARIABLES
    \* the request
    via,                \* "endpoint": through layout_intelligence_endpoint; "direct": process() called directly
    text,               \* the user text
    template,           \* "found" / "missing": outcome of the template lookup of the endpoint
    template_layouts,   \* the analysed layouts (<<>>: none)
    mapper,             \* the mapper of the service: None: LayoutTypeMapper; Some(m): one whose build_mapping returns m
    \* the clock and the deadlines
    now,                \* datetime.now(), seconds
    timeout_at,         \* when asyncio.timeout of the endpoint expires (-1: not armed)
    deadline,           \* TimeoutBudget.deadline (-1: no budget yet)
    \* process()
    pc,                 \* position of the request
    layout_mapping,     \* None or Some(mapping)
    plan,               \* the current LayoutIntelligencePlan
    overflow_results,
    has_overflow,
    resolution_attempts,
    slide_contents,
    warnings,
    \* _call_llm_with_validation
    call,               \* "none" / "structuring" / "resolution": the call in progress or last made
    prompt,             \* the prompt of the next or the most recent invocation
    attempt,
    max_retries,
    \* the outcome
    exc,                \* the exception that left process()
    status,             \* HTTP status of the endpoint (0: none)
    \* observation of the LLM client (what a mock records)
    llm_calls,          \* number of ainvoke calls
    received,           \* what each ainvoke call ended with, in order
    stages,             \* the stages process() has entered, in order
    \* LayoutTypeMapper applied on its own
    m_pc, m_layouts, m_catalog, m_mapping,
    \* one function or method applied on its own
    u_fn,               \* which one
    u_pc,               \* "ready": not yet applied; "done": applied; "again": the clock moved since
    u_in,               \* its arguments
    u_out               \* what it returned or raised

reqVars == <<via, text, template, template_layouts, mapper>>
clockVars == <<now, timeout_at, deadline>>
procVars == <<layout_mapping, plan, overflow_results, has_overflow,
              resolution_attempts, slide_contents, warnings>>
callVars == <<call, prompt, attempt, max_retries>>
outVars == <<exc, status>>
obsVars == <<llm_calls, received>>
mapperVars == <<m_pc, m_layouts, m_catalog, m_mapping>>
unitVars == <<u_fn, u_pc, u_in, u_out>>

vars == <<reqVars, clockVars, pc, procVars, callVars, outVars, obsVars, mapperVars,
          unitVars, stages>>

----------------------------------------------------------------------------
(* Initial states *)

\* the mapper variables while the pipeline runs
MapperOff ==
    /\ m_pc = "off"
    /\ m_layouts = <<>>
    /\ m_catalog = <<>>
    /\ m_mapping = EmptyMapping

\* no function is being applied on its own
UnitOff ==
    /\ u_fn = "none"
    /\ u_pc = "off"
    /\ u_in = <<>>
    /\ u_out = <<>>

\* everything of a request except its inputs and its position
RequestFresh ==
    /\ stages = <<>>
    /\ now = 0
    /\ timeout_at = -1
    /\ deadline = -1
    /\ layout_mapping = None
    /\ plan = NoPlan
    /\ overflow_results = <<>>
    /\ has_overflow = FALSE
    /\ resolution_attempts = 0
    /\ slide_contents = <<>>
    /\ warnings = <<>>
    /\ call = "none"
    /\ prompt = NoPrompt
    /\ attempt = 0
    /\ max_retries = 0
    /\ exc = NoExc
    /\ status = 0
    /\ llm_calls = 0
    /\ received = <<>>

\* a request arrives at the endpoint, or a caller is about to call process()
Init ==
    /\ via \in {"endpoint", "direct"}
    /\ text \in Texts
    /\ template \in IF via = "endpoint" THEN {"found", "missing"} ELSE {"found"}
    /\ template_layouts \in TemplateLists
    /\ mapper \in IF via = "direct" /\ template_layouts # <<>>
                  THEN {None} \cup {Some(m) : m \in StubMappings}
                  ELSE {None}
    /\ pc = IF via = "endpoint" THEN "request" ELSE "process"
    /\ RequestFresh
    /\ MapperOff
    /\ UnitOff

----------------------------------------------------------------------------
(* Actions of a request.  The code between two awaits runs without
   suspension; the clock advances while an LLM invocation is awaited. *)

\* an exception leaves process(); behind the endpoint its except clauses
\* turn it into the HTTP status
Fail(e) ==
    /\ pc' = "failed"
    /\ exc' = e
    /\ status' = IF via = "endpoint" THEN StatusFor(e) ELSE 0

\* routes.py: layout_intelligence_endpoint up to the call of process():
\* body validation (LayoutIntelligenceRequest.text, 1..10000 characters),
\* template lookup, template analysis, asyncio.timeout armed
Endpoint ==
    /\ pc = "request"
    /\ UNCHANGED stages
    /\ IF TextLen(text) < 1 \/ TextLen(text) > 10000
       THEN /\ pc' = "rejected" /\ status' = 422 /\ UNCHANGED timeout_at
       ELSE IF template = "missing"
            THEN /\ pc' = "rejected" /\ status' = 404 /\ UNCHANGED timeout_at
            ELSE IF template_layouts = <<>>
                 THEN /\ pc' = "rejected" /\ status' = 500 /\ UNCHANGED timeout_at
                 ELSE /\ pc' = "process"
                      /\ timeout_at' = now + LayoutIntelligenceTimeout
                      /\ UNCHANGED status
    /\ UNCHANGED <<reqVars, now, deadline, procVars, callVars, exc, obsVars, mapperVars,
                   unitVars>>

\* variant: the mapping is built after the structuring call was begun
StagesBeforeFirstCall_StructuringFirst(has_template) ==
    <<"STRUCTURING">> \o (IF has_template THEN <<"MAPPING_LAYOUTS">> ELSE <<>>)

\* the stages process() enters after the input validation and before its
\* first await: build_mapping when template layouts were given, then the
\* structuring call
StagesBeforeFirstCall(has_template) ==
    (IF has_template THEN <<"MAPPING_LAYOUTS">> ELSE <<>>) \o <<"STRUCTURING">>

\* LayoutTypeMapper(template_layouts).build_mapping(), tabulated over the
\* template layout lists a request can carry
BuiltMapping ==
    [layouts \in TemplateLists |-> build_mapping(layouts, get_all_layouts)]

\* process(): input validation, budget, mapping, structuring prompt, entry
\* into _call_llm_with_validation(max_retries=2)
ProcessStart ==
    /\ pc = "process"
    /\ stages' = stages \o <<"VALIDATING_INPUT">>
                    \o (IF InputValidator_validate(text) # "ok"
                        THEN <<"FAILED">>
                        ELSE StagesBeforeFirstCall(template_layouts # <<>>))
    /\ LET verdict == InputValidator_validate(text)
       IN  IF verdict # "ok"
           THEN /\ Fail(Exc("ValueError", verdict))
                /\ UNCHANGED <<deadline, layout_mapping, callVars>>
           ELSE /\ deadline' = now + LayoutIntelligenceTimeout
                /\ layout_mapping' =
                       IF template_layouts # <<>>
                       THEN IF mapper = None
                            THEN Some(BuiltMapping[template_layouts])
                            ELSE mapper
                       ELSE None
                /\ \E session_salt \in Salts :
                       prompt' = _build_content_structuring_prompt(text, session_salt)
                /\ call' = "structuring"
                /\ attempt' = 0
                /\ max_retries' = StructuringRetries
                /\ pc' = "attempt"
                /\ UNCHANGED outVars
    /\ UNCHANGED <<reqVars, now, timeout_at, plan, overflow_results, has_overflow,
                   resolution_attempts, slide_contents, warnings, obsVars, mapperVars,
                   unitVars>>

\* _call_llm_with_validation, top of the loop: the budget check before a
\* retry, then llm.ainvoke(prompt) is started
Attempt ==
    /\ pc = "attempt"
    /\ stages' = IF BudgetBlocksRetry(attempt, deadline, now)
                 THEN Append(stages, "FAILED") ELSE stages
    /\ IF BudgetBlocksRetry(attempt, deadline, now)
       THEN /\ Fail(BudgetError)
            /\ UNCHANGED llm_calls
       ELSE /\ llm_calls' = llm_calls + 1
            /\ pc' = "awaiting"
            /\ UNCHANGED outVars
    /\ UNCHANGED <<reqVars, clockVars, procVars, callVars, received, mapperVars, unitVars>>

\* time passes while the invocation is in flight
Elapse ==
    /\ pc = "awaiting"
    /\ UNCHANGED stages
    /\ now + ClockStep <= MaxNow
    /\ now' = now + ClockStep
    /\ UNCHANGED <<reqVars, timeout_at, deadline, pc, procVars, callVars, outVars,
                   obsVars, mapperVars,
                   unitVars>>

\* what one ainvoke call ended with, and the slides of the plan it returned
Received(outcome, n_overflow, slides) ==
    [call |-> call, attempt |-> attempt, outcome |-> outcome, n_overflow |-> n_overflow,
     slides |-> slides]

\* number of overflowing slides of a plan
OverflowCount(slides) ==
    LET results == OverflowValidator_validate(slides, get_all_layouts)
    IN  Cardinality({i \in DOMAIN results : results[i].is_overflow})

\* the invocation in flight ends: ainvoke raises, or returns a text that is
\* parsed (json.loads) and validated (model_validate); a failed validation
\* is retried with the error appended to the prompt, or re-raised after the
\* last attempt
LLMRespond ==
    /\ pc = "awaiting"
    /\ via = "direct" \/ now <= timeout_at
    /\ \E r \in Responses :
        IF r.kind = "raise"
        THEN /\ Fail(Exc("LLMError", "LLM call failed"))
             /\ received' = Append(received, Received("LLMError", 0, <<>>))
             /\ UNCHANGED <<plan, prompt, attempt>>
        ELSE IF r.json /\ PlanValid(r)
             THEN /\ plan' = Plan(r.presentation_title, r.slides)
                  /\ received' = Append(received, Received("valid", OverflowCount(r.slides),
                                                          r.slides))
                  /\ pc' = IF call = "structuring" THEN "check_overflow" ELSE "revalidate"
                  /\ UNCHANGED <<prompt, attempt, outVars>>
             ELSE LET e == IF ~r.json
                           THEN Exc("JSONDecodeError", "Expecting value")
                           ELSE Exc("ValidationError", "validation error for LayoutIntelligencePlan")
                  IN  /\ received' = Append(received, Received(e.type, 0, <<>>))
                      /\ IF attempt >= max_retries
                         THEN /\ Fail(e)
                              /\ UNCHANGED <<plan, prompt, attempt>>
                         ELSE /\ prompt' = RetryPrompt(prompt, e.type)
                              /\ attempt' = attempt + 1
                              /\ pc' = "attempt"
                              /\ UNCHANGED <<plan, outVars>>
    /\ UNCHANGED <<reqVars, clockVars, layout_mapping, overflow_results, has_overflow,
                   resolution_attempts, slide_contents, warnings, call, max_retries,
                   llm_calls, mapperVars, unitVars>>
    /\ stages' = IF pc' = "failed" THEN Append(stages, "FAILED") ELSE stages

\* routes.py: asyncio.timeout expires while the invocation is awaited; the
\* await is cancelled and the endpoint answers 504
Cancel ==
    /\ pc = "awaiting"
    /\ via = "endpoint"
    /\ now >= timeout_at
    /\ Fail(Exc("TimeoutError", "asyncio.timeout expired"))
    /\ stages' = Append(stages, "FAILED")
    /\ received' = Append(received, Received("cancelled", 0, <<>>))
    /\ UNCHANGED <<reqVars, clockVars, procVars, callVars, llm_calls, mapperVars, unitVars>>

\* process(), step 2: overflow detection on the structured plan and the
\* decision to resolve
CheckOverflow ==
    /\ pc = "check_overflow"
    /\ stages' = Append(stages, "CHECKING_OVERFLOW")
    /\ LET results == OverflowValidator_validate(plan.slides, get_all_layouts)
       IN  /\ overflow_results' = results
           /\ has_overflow' = AnyOverflow(results)
           /\ IF ShouldResolve(AnyOverflow(results), deadline, now)
              THEN /\ resolution_attempts' = 0
                   /\ pc' = "resolve_loop"
              ELSE /\ pc' = "convert"
                   /\ UNCHANGED resolution_attempts
    /\ UNCHANGED <<reqVars, clockVars, layout_mapping, plan, slide_contents, warnings,
                   callVars, outVars, obsVars, mapperVars,
                   unitVars>>

\* process(): the condition of the resolution loop; a round builds the
\* resolution prompt and enters _call_llm_with_validation(max_retries=1)
ResolveLoop ==
    /\ pc = "resolve_loop"
    /\ stages' = IF LoopContinues(has_overflow, resolution_attempts, deadline, now)
                 THEN Append(stages, "RESOLVING_OVERFLOW") ELSE stages
    /\ IF LoopContinues(has_overflow, resolution_attempts, deadline, now)
       THEN /\ prompt' = _build_overflow_resolution_prompt(plan.slides, overflow_results)
            /\ call' = "resolution"
            /\ attempt' = 0
            /\ max_retries' = ResolutionRetries
            /\ pc' = "attempt"
       ELSE /\ pc' = "convert"
            /\ UNCHANGED callVars
    /\ UNCHANGED <<reqVars, clockVars, procVars, outVars, obsVars, mapperVars,
                   unitVars>>

\* variant: the overflow results of the previous round are kept
Revalidate_Stale ==
    /\ pc = "revalidate"
    /\ UNCHANGED stages
    /\ has_overflow' = AnyOverflow(OverflowValidator_validate(plan.slides, get_all_layouts))
    /\ resolution_attempts' = resolution_attempts + 1
    /\ pc' = "resolve_loop"
    /\ UNCHANGED <<reqVars, clockVars, layout_mapping, plan, overflow_results,
                   slide_contents, warnings, callVars, outVars, obsVars, mapperVars,
                   unitVars>>

\* process(): the revised plan is validated again, the round is counted
Revalidate ==
    /\ pc = "revalidate"
    /\ UNCHANGED stages
    /\ LET results == OverflowValidator_validate(plan.slides, get_all_layouts)
       IN  /\ overflow_results' = results
           /\ has_overflow' = AnyOverflow(results)
    /\ resolution_attempts' = resolution_attempts + 1
    /\ pc' = "resolve_loop"
    /\ UNCHANGED <<reqVars, clockVars, layout_mapping, plan, slide_contents, warnings,
                   callVars, outVars, obsVars, mapperVars,
                   unitVars>>

\* variant: the first slide the mapper fails for ends the conversion
RECURSIVE ConvertSlides_AbortOnFailure(_, _, _, _)
ConvertSlides_AbortOnFailure(slides, mapping, contents, warns) ==
    IF slides = <<>>
    THEN [slide_contents |-> contents, warnings |-> warns]
    ELSE LET slide == Head(slides)
             mapped == map_type_to_index(slide.layout_type_id, mapping[1])
             use_mapping == mapping # None /\ DOMAIN mapping[1] # {}
             layout_index ==
                 IF use_mapping THEN mapped.index ELSE slide.layout_type_id - 1
         IN  IF use_mapping /\ mapped.raised
             THEN [slide_contents |-> contents,
                   warnings |-> Append(warns, [kind |-> "no_compatible_layout",
                                               layout_type_id |-> slide.layout_type_id,
                                               chain |-> mapped.chain])]
             ELSE ConvertSlides_AbortOnFailure(
                      Tail(slides), mapping,
                      Append(contents, to_slide_content(slide, layout_index)), warns)

\* the conversion loop of process() over the slides of the plan
RECURSIVE ConvertSlides(_, _, _, _)
ConvertSlides(slides, mapping, contents, warns) ==
    IF slides = <<>>
    THEN [slide_contents |-> contents, warnings |-> warns]
    ELSE LET slide == Head(slides)
             mapped == map_type_to_index(slide.layout_type_id, mapping[1])
             use_mapping == mapping # None /\ DOMAIN mapping[1] # {}
             layout_index ==
                 IF use_mapping
                 THEN IF mapped.raised THEN 0 ELSE mapped.index
                 ELSE slide.layout_type_id - 1
             warns2 ==
                 IF use_mapping /\ mapped.raised
                 THEN Append(warns, [kind |-> "no_compatible_layout",
                                     layout_type_id |-> slide.layout_type_id,
                                     chain |-> mapped.chain])
                 ELSE warns
         IN  ConvertSlides(Tail(slides), mapping,
                           Append(contents, to_slide_content(slide, layout_index)),
                           warns2)

\* process(): conversion to SlideContent and return of the result
Convert ==
    /\ pc = "convert"
    /\ stages' = stages \o <<"CONVERTING", "DONE">>
    /\ LET result == ConvertSlides(plan.slides, layout_mapping, <<>>, <<>>)
       IN  /\ slide_contents' = result.slide_contents
           /\ warnings' = result.warnings
    /\ pc' = "done"
    /\ status' = IF via = "endpoint" THEN 200 ELSE 0
    /\ UNCHANGED <<reqVars, clockVars, layout_mapping, plan, overflow_results,
                   has_overflow, resolution_attempts, callVars, exc, obsVars, mapperVars,
                   unitVars>>

Next ==
    \/ Endpoint
    \/ ProcessStart
    \/ Attempt
    \/ Elapse
    \/ LLMRespond
    \/ Cancel
    \/ CheckOverflow
    \/ ResolveLoop
    \/ Revalidate
    \/ Convert

Spec == Init /\ [][Next]_vars

\* the event loop runs a coroutine that is ready, and every LLM invocation
\* eventually returns, raises, or is cancelled by the timeout of the endpoint
Progress ==
    /\ WF_vars(Endpoint \/ ProcessStart \/ Attempt \/ CheckOverflow
                  \/ ResolveLoop \/ Revalidate \/ Convert)
    /\ WF_vars(LLMRespond \/ Cancel)

\* the requests that differ in the path they take through the endpoint and
\* process(): the mapper of the deployment, one text for each verdict of the
\* input validation
InitFair ==
    /\ Init
    /\ mapper = None
    /\ text \in Texts \ {UserText(1, 9998, 1)}

FairSpec == InitFair /\ [][Next]_vars /\ Progress

----------------------------------------------------------------------------
(* LayoutTypeMapper.build_mapping applied to lists of layouts and catalogs *)

RequestOff ==
    /\ via = "direct"
    /\ text = UserText(0, 0, 0)
    /\ template = "found"
    /\ template_layouts = <<>>
    /\ mapper = None
    /\ pc = "off"
    /\ RequestFresh

InitMapper ==
    /\ m_pc = "ready"
    /\ m_layouts \in SeqsOf(SampleLayouts, 0, MaxLayouts)
    /\ m_catalog \in Catalogs
    /\ m_mapping = EmptyMapping
    /\ RequestOff
    /\ UnitOff

BuildMapping ==
    /\ m_pc = "ready"
    /\ m_mapping' = build_mapping(m_layouts, m_catalog)
    /\ m_pc' = "built"
    /\ UNCHANGED <<m_layouts, m_catalog, reqVars, clockVars, pc, procVars, callVars,
                   outVars, obsVars, unitVars, stages>>

NextMapper == BuildMapping

MapperSpec == InitMapper /\ [][NextMapper]_vars

----------------------------------------------------------------------------
(* Functions and methods applied on their own to arguments drawn from
   bounded sets *)

\* layout type ids handed to map_type_to_index: the catalog's and one unknown
LookupTypeIds == 1..8

\* two assignments of layout indices to the types: index = id - 1, and the
\* example of the documentation where the types 2 and 7 share a layout
IndexSchemes == {[k \in 1..7 |-> k - 1], <<0, 1, 2, 3, 4, 5, 1>>}

\* the mappings handed to map_type_to_index: every set of keys
LookupMappings ==
    {[k \in keys |-> scheme[k]] : keys \in SUBSET (1..7), scheme \in IndexSchemes}

InitLookup ==
    /\ u_fn = "map_type_to_index"
    /\ u_in \in [layout_type_id : LookupTypeIds, mapping : LookupMappings]

\* a slide whose body text is the empty string and that has notes and bullets
S_EmptyBody ==
    Slide(6, Str("Notes only", 10), Some(Str("", 0)),
          <<Bullet(Str("p", 30), 0), Bullet(Str("q", 40), 1)>>, <<>>,
          Some(Str("notes", 77)))

ValidatorSlides == {S_Fit, S_AtCap, S_OverBy1, S_Over, S_TwoCol, S_EmptyBody}

\* the full catalog, and one without the types 3..7 (their capacity is the
\* default of capacity_map.get)
ValidatorCatalogs == {LAYOUT_CATALOG, SubSeq(LAYOUT_CATALOG, 1, 2)}

InitValidate ==
    /\ u_fn = "validate"
    /\ u_in \in [slides : SeqsOf(ValidatorSlides, 0, MaxSlides),
                 catalog : ValidatorCatalogs]

\* n valid bullets
BulletsOf(n) == [i \in 1..n |-> Bullet(Str("b", 20), i % 3)]

\* keyword arguments of LayoutIntelligenceSlide(...): a two-column slide or a
\* bullet slide, with or without a title, with 0..MaxBullets bullets a column
ConstructorArgs ==
    {Slide(id, Str("T", title_len), None, BulletsOf(n_left), BulletsOf(n_right), None) :
         id \in {2, 4}, title_len \in {0, 10},
         n_left \in 0..MaxBullets, n_right \in 0..MaxBullets}

InitConstruct ==
    /\ u_fn = "LayoutIntelligenceSlide"
    /\ u_in \in ConstructorArgs

\* a TimeoutBudget of 20 s created at time 0, asked for min_seconds of 5 or 15
InitBudget ==
    /\ u_fn = "has_time"
    /\ u_in \in [deadline : {20}, now : {0}, min_seconds : {5, 15}]

\* a slide that has a title only
S_TitleOnly == Slide(1, Str("Welcome", 7), None, <<>>, <<>>, None)

ConversionSlides == {S_TitleOnly, S_Fit, S_AtCap, S_TwoCol, S_EmptyBody}

InitConversion ==
    /\ u_fn = "to_slide_content"
    /\ u_in \in [slide : ConversionSlides, layout_index : 0..MaxLayouts]

\* the structuring prompt is built for MaxRequests requests that carry the
\* same text
InitPrompt ==
    /\ u_fn = "_build_content_structuring_prompt"
    /\ u_in \in [text : {t \in Texts : InputValidator_validate(t) = "ok"}]

\* a placeholder of a slide: its PP_PLACEHOLDER type and has_text_frame
Placeholder(type, has_text_frame) == [type |-> type, has_text_frame |-> has_text_frame]

\* PresentationGenerator._find_placeholder: the first placeholder of the
\* first preferred type that occurs on the slide (0: none)
RECURSIVE _find_placeholder(_, _)
_find_placeholder(placeholders, prefer_types) ==
    IF prefer_types = <<>>
    THEN 0
    ELSE LET hits == {i \in DOMAIN placeholders : placeholders[i].type = Head(prefer_types)}
         IN  IF hits # {}
             THEN CHOOSE i \in hits : \A j \in hits : i <= j
             ELSE _find_placeholder(placeholders, Tail(prefer_types))

\* SlidePopulator.populate_bullets: the paragraphs written, a string as a
\* paragraph of level 0, a BulletPoint with its level
populate_bullets(bullets, are_str) ==
    [i \in DOMAIN bullets |->
        IF are_str
        THEN [text |-> bullets[i], level |-> 0]
        ELSE [text |-> bullets[i].text, level |-> bullets[i].level]]

\* PresentationGenerator.generate, the text of one slide: what each
\* placeholder of the new slide holds afterwards (<<>>: nothing written)
generate_slide_text(content, placeholders) ==
    LET structured == content.bullets # None /\ content.bullets[1] # <<>>
        bullets_to_use == IF structured THEN content.bullets[1] ELSE content.bullet_points
        body_placeholder == _find_placeholder(placeholders, <<"BODY", "OBJECT">>)
    IN  [i \in DOMAIN placeholders |->
            IF /\ bullets_to_use # <<>>
               /\ i = body_placeholder
               /\ placeholders[i].has_text_frame
            THEN populate_bullets(bullets_to_use, ~structured)
            ELSE <<>>]

\* the placeholders of the layouts a slide is generated on
GeneratorLayouts ==
    {<<Placeholder("TITLE", TRUE), Placeholder("BODY", TRUE), Placeholder("BODY", TRUE)>>,
     <<Placeholder("TITLE", TRUE), Placeholder("BODY", TRUE)>>,
     <<Placeholder("TITLE", TRUE), Placeholder("OBJECT", TRUE), Placeholder("BODY", TRUE)>>,
     <<Placeholder("TITLE", TRUE), Placeholder("BODY", FALSE), Placeholder("OBJECT", TRUE)>>,
     <<Placeholder("TITLE", TRUE), Placeholder("PICTURE", FALSE)>>}

InitGenerate ==
    /\ u_fn = "generate"
    /\ u_in \in [content : {to_slide_content(sl, 0) : sl \in ConversionSlides},
                 placeholders : GeneratorLayouts]

InitScore ==
    /\ u_fn = "_score_layout_match"
    /\ u_in \in [layout : SampleLayouts, layout_type : Range(LAYOUT_CATALOG)]

InitUnit ==
    /\ \/ InitLookup
       \/ InitValidate
       \/ InitConstruct
       \/ InitBudget
       \/ InitConversion
       \/ InitPrompt
       \/ InitScore
       \/ InitGenerate
    /\ u_pc = "ready"
    /\ u_out = <<>>
    /\ mapper = None
    /\ RequestOff
    /\ MapperOff

UnitFrame == UNCHANGED <<stages, u_fn, reqVars, clockVars, pc, procVars, callVars, outVars,
                         obsVars, mapperVars>>

\* mapper.map_type_to_index(layout_type_id, mapping)
MapTypeToIndex ==
    /\ u_fn = "map_type_to_index" /\ u_pc = "ready"
    /\ u_out' = map_type_to_index(u_in.layout_type_id, u_in.mapping)
    /\ u_pc' = "done"
    /\ UNCHANGED u_in
    /\ UnitFrame

\* OverflowValidator.validate(slides, catalog)
Validate ==
    /\ u_fn = "validate" /\ u_pc = "ready"
    /\ u_out' = OverflowValidator_validate(u_in.slides, u_in.catalog)
    /\ u_pc' = "done"
    /\ UNCHANGED u_in
    /\ UnitFrame

\* LayoutIntelligenceSlide(**kwargs): pydantic validates the fields, then runs
\* validate_two_column; a failure raises ValidationError
ConstructSlide ==
    /\ u_fn = "LayoutIntelligenceSlide" /\ u_pc = "ready"
    /\ u_out' = [raised |-> ~SlideValid(u_in)]
    /\ u_pc' = "done"
    /\ UNCHANGED u_in
    /\ UnitFrame

\* budget.remaining_seconds and budget.has_time(min_seconds) are read
HasTime ==
    /\ u_fn = "has_time" /\ u_pc \in {"ready", "again"}
    /\ u_out' = [remaining_seconds |-> remaining_seconds(u_in.deadline, u_in.now),
                 has_time |-> has_time(u_in.deadline, u_in.now, u_in.min_seconds)]
    /\ u_pc' = "done"
    /\ UNCHANGED u_in
    /\ UnitFrame

\* datetime.now() has advanced since the budget was last read
Tick ==
    /\ u_fn = "has_time" /\ u_pc = "done"
    /\ \E d \in {1, ClockStep} :
           /\ u_in.now + d <= BudgetHorizon
           /\ u_in' = [u_in EXCEPT !.now = @ + d]
    /\ u_pc' = "again"
    /\ UNCHANGED u_out
    /\ UnitFrame

\* slide.to_slide_content(layout_index)
ToSlideContent ==
    /\ u_fn = "to_slide_content" /\ u_pc = "ready"
    /\ u_out' = to_slide_content(u_in.slide, u_in.layout_index)
    /\ u_pc' = "done"
    /\ UNCHANGED u_in
    /\ UnitFrame

\* self._build_content_structuring_prompt(validated_text) of one more
\* request; secrets.token_hex(8) yields any salt
BuildStructuringPrompt ==
    /\ u_fn = "_build_content_structuring_prompt" /\ u_pc = "ready"
    /\ \E session_salt \in Salts :
           u_out' = Append(u_out, _build_content_structuring_prompt(u_in.text, session_salt))
    /\ u_pc' = IF Len(u_out) + 1 >= MaxRequests THEN "done" ELSE "ready"
    /\ UNCHANGED u_in
    /\ UnitFrame

\* mapper._score_layout_match(layout, layout_type)
ScoreLayoutMatch ==
    /\ u_fn = "_score_layout_match" /\ u_pc = "ready"
    /\ u_out' = _score_layout_match(u_in.layout, u_in.layout_type)
    /\ u_pc' = "done"
    /\ UNCHANGED u_in
    /\ UnitFrame

\* PresentationGenerator.generate adds one slide and writes its text
GenerateSlide ==
    /\ u_fn = "generate" /\ u_pc = "ready"
    /\ u_out' = generate_slide_text(u_in.content, u_in.placeholders)
    /\ u_pc' = "done"
    /\ UNCHANGED u_in
    /\ UnitFrame

NextUnit ==
    \/ MapTypeToIndex
    \/ Validate
    \/ ConstructSlide
    \/ HasTime
    \/ Tick
    \/ ToSlideContent
    \/ BuildStructuringPrompt
    \/ ScoreLayoutMatch
    \/ GenerateSlide

UnitSpec == InitUnit /\ [][NextUnit]_vars

----------------------------------------------------------------------------
(* Properties *)

IsStructuring(x) == x.call = "structuring"

\* what the invocations of the structuring call ended with
StructuringReceived == SelectSeq(received, IsStructuring)

ValidationFailures == {"JSONDecodeError", "ValidationError"}

AllFailedValidation(rs) ==
    \A i \in DOMAIN rs : rs[i].outcome \in ValidationFailures

\* process() has been entered and has passed or failed its input validation
ProcessRan == pc \notin {"off", "request", "rejected", "process"}

InputErrors == {"Input text cannot be empty",
                "Input text exceeds maximum length of 10000 characters"}

\* slides of a plan that exceed the capacity of their layout type
OverflowingSlides(slides) ==
    {i \in DOMAIN slides :
        _calculate_total_chars(slides[i]) > CapacityOf(LAYOUT_CATALOG, slides[i].layout_type_id)}

\* C1: the structuring call (max_retries=2) invokes the LLM at most 3 times,
\* stops at the first response that parses and validates, and, while at
\* least 15 s of budget remain, a call all of whose responses fail parsing
\* or validation fails with that validation error after exactly 3 invocations
C1_StructuringAttempts ==
    LET sr == StructuringReceived
    IN  /\ Len(sr) <= 3
        /\ (call = "structuring" => llm_calls <= 3)
        /\ \A i \in DOMAIN sr : sr[i].outcome = "valid" => i = Len(sr)
        /\ (Len(sr) = 3 /\ AllFailedValidation(sr))
               => /\ pc = "failed"
                  /\ exc.type = sr[3].outcome
                  /\ llm_calls = 3
        /\ (pc = "failed" /\ call = "structuring" /\ deadline - now >= 15
            /\ AllFailedValidation(sr))
               => /\ Len(sr) = 3
                  /\ exc.type \in ValidationFailures

C1_Witness ==
    /\ pc = "failed"
    /\ call = "structuring"
    /\ llm_calls = 3
    /\ exc.type = "ValidationError"
    /\ deadline - now >= 15

\* C2: before a retry, with fewer than 15 s left no invocation is made and
\* the call fails at once with the budget error; no retry invocation starts
\* when fewer than 15 s remain
C2_RetryNeedsBudget ==
    [][ /\ (pc = "attempt" /\ attempt > 0 /\ deadline - now < 15)
            => (pc' = "failed" /\ exc' = BudgetError /\ llm_calls' = llm_calls)
        /\ (llm_calls' # llm_calls /\ attempt' > 0)
            => deadline' - now' >= 15 ]_vars

C2_Witness ==
    /\ pc = "failed"
    /\ exc = BudgetError
    /\ attempt > 0
    /\ deadline - now < 15

\* C3: process() on an empty, blank or over-long text fails with the input
\* validation error before any LLM invocation; a text of exactly 10000
\* characters that is not blank passes the input validation
C3_InputValidation ==
    ProcessRan =>
        /\ (TextLen(text) = 0 \/ StripLen(text) = 0 \/ TextLen(text) > 10000)
               => /\ pc = "failed"
                  /\ exc.type = "ValueError"
                  /\ exc.msg \in InputErrors
                  /\ llm_calls = 0
                  /\ call = "none"
        /\ (TextLen(text) = 10000 /\ StripLen(text) > 0)
               => /\ exc.msg \notin InputErrors
                  /\ call # "none"

C3_Witness ==
    /\ pc = "failed"
    /\ TextLen(text) > 10000
    /\ StripLen(text) > 0
    /\ exc.msg \in InputErrors
    /\ llm_calls = 0

\* C4: when the first structuring response is valid and none of its slides
\* is over capacity, there is exactly one LLM invocation and the resolution
\* stage is never entered
C4_NoOverflowOneCall ==
    (/\ Len(received) >= 1
     /\ received[1].outcome = "valid"
     /\ received[1].n_overflow = 0)
        => /\ llm_calls = 1
           /\ pc \in {"check_overflow", "convert", "done"}
           /\ call = "structuring"
           /\ resolution_attempts = 0

C4_Witness ==
    /\ pc = "done"
    /\ llm_calls = 1
    /\ received[1].outcome = "valid"
    /\ OverflowingSlides(plan.slides) = {}

\* C5: when the first structuring response is valid with one slide over
\* capacity and the budget is ample, a resolution invocation follows; when
\* the first resolution response is valid without overflow there are exactly
\* two invocations; the prompt of the second invocation names the title and
\* the overflow amount of the overflowing slide
C5_OneResolutionRound ==
    (/\ Len(received) >= 1
     /\ received[1].outcome = "valid"
     /\ received[1].n_overflow = 1)
        => /\ (pc \in {"convert", "done"} /\ deadline - now >= 15)
                  => Len(received) >= 2
           /\ (Len(received) >= 2 /\ received[2].outcome = "valid"
               /\ received[2].n_overflow = 0)
                  => /\ llm_calls = 2
                     /\ pc \in {"revalidate", "resolve_loop", "convert", "done"}
           /\ (llm_calls = 2 /\ pc = "awaiting")
                  => /\ prompt.kind = "resolution"
                     /\ \A i \in OverflowingSlides(plan.slides) :
                           \E k \in DOMAIN prompt.overflow_summary :
                              LET line == prompt.overflow_summary[k]
                              IN  /\ line.title = plan.slides[i].title
                                  /\ line.overflow_amount =
                                        _calculate_total_chars(plan.slides[i])
                                        - CapacityOf(LAYOUT_CATALOG, plan.slides[i].layout_type_id)

C5_Witness ==
    /\ pc = "done"
    /\ llm_calls = 2
    /\ Len(received) = 2
    /\ received[1].outcome = "valid"
    /\ received[1].n_overflow = 1
    /\ received[2].outcome = "valid"
    /\ received[2].n_overflow = 0
    /\ deadline - now >= 15

\* C6: a resolution round is started only when the current plan has a slide
\* over capacity according to the latest overflow results and at least 15 s
\* of budget remain at that moment
C6_RoundNeedsOverflowAndBudget ==
    [][ (llm_calls' # llm_calls /\ call' = "resolution" /\ attempt' = 0)
            => /\ OverflowingSlides(plan.slides) # {}
               /\ AnyOverflow(overflow_results)
               /\ Len(overflow_results) = Len(plan.slides)
               /\ deadline - now >= 15 ]_vars

C6_Witness ==
    /\ pc = "awaiting"
    /\ call = "resolution"
    /\ attempt = 0
    /\ resolution_attempts = 1

\* C7: once structuring has produced a valid plan, running short of time in
\* the resolution stage never fails the request
C7_ResolutionNeverFailsOnBudget ==
    ~(pc = "failed" /\ call = "resolution" /\ exc = BudgetError)

\* C8: a result converted from a plan that still has a slide over capacity
\* carries a warning about the unresolved overflow
C8_UnresolvedOverflowWarned ==
    (pc = "done" /\ OverflowingSlides(plan.slides) # {})
        => \E i \in DOMAIN warnings : warnings[i].kind = "overflow_unresolved"

\* C9: at the endpoint a budget-exhaustion failure is answered with 504,
\* exhausted validation retries with 422 and any other exception with 500;
\* budget exhaustion never shares the status of a validation failure
C9_DistinctFailureStatus ==
    (via = "endpoint" /\ pc = "failed")
        => /\ (exc = BudgetError => status = 504 /\ status # 422)
           /\ (exc.type \in ValidationFailures => status = 422)
           /\ (exc.type = "LLMError" => status = 500)

\* C10: for a non-empty list of layouts and any catalog, the keys of the
\* mapping returned by build_mapping are exactly the ids of the catalog
C10_MappingComplete ==
    (m_pc = "built" /\ m_layouts # <<>>)
        => DOMAIN m_mapping = {m_catalog[i].id : i \in DOMAIN m_catalog}

C10_Witness ==
    /\ m_pc = "built"
    /\ m_layouts # <<>>
    /\ m_catalog = LAYOUT_CATALOG
    /\ \A i \in DOMAIN m_layouts : \A t \in DOMAIN m_catalog :
           _score_layout_match(m_layouts[i], m_catalog[t]) < 0
    /\ DOMAIN m_mapping = 1..7

\* position in the list of the layout the specification designates for a
\* type: the highest score, the first of the list on ties
HighestScoreFirst(layouts, layout_type) ==
    CHOOSE i \in DOMAIN layouts :
        /\ \A j \in DOMAIN layouts :
               _score_layout_match(layouts[j], layout_type)
                   <= _score_layout_match(layouts[i], layout_type)
        /\ \A j \in 1..(i - 1) :
               _score_layout_match(layouts[j], layout_type)
                   < _score_layout_match(layouts[i], layout_type)

\* C11: for a non-empty list of layouts, build_mapping maps every catalog
\* entry to the index of the layout with the highest score for it, the first
\* of the list on ties, whatever the scores are (zero and negative included)
C11_HighestScoreFirstWins ==
    (m_pc = "built" /\ m_layouts # <<>>)
        => \A t \in DOMAIN m_catalog :
               m_mapping[m_catalog[t].id]
                   = m_layouts[HighestScoreFirst(m_layouts, m_catalog[t])].index

\* the fallback chains as the specification states them
StatedChains ==
    <<<<2, 3>>, <<6, 7>>, <<1, 2>>, <<2, 6>>, <<2, 6>>, <<2, 7>>, <<2, 6>>>>

StatedChainOf(id) == IF id \in DOMAIN StatedChains THEN StatedChains[id] ELSE <<>>

\* the first member of a chain that is among the keys
FirstKeyOf(chain, keys) ==
    chain[CHOOSE i \in DOMAIN chain :
              chain[i] \in keys /\ \A j \in 1..(i - 1) : chain[j] \notin keys]

LookupDone == u_fn = "map_type_to_index" /\ u_pc = "done"

\* C12: for a layout type 1..7, map_type_to_index returns the mapping's value
\* for the type when it is a key, and otherwise the value for the first type
\* of the type's stated fallback chain that is a key
C12_DirectThenFirstFallback ==
    (LookupDone /\ u_in.layout_type_id \in 1..7)
        => LET id == u_in.layout_type_id
               keys == DOMAIN u_in.mapping
               chain == StatedChains[id]
           IN  IF id \in keys
               THEN ~u_out.raised /\ u_out.index = u_in.mapping[id]
               ELSE (\E i \in DOMAIN chain : chain[i] \in keys)
                        => /\ ~u_out.raised
                           /\ u_out.index = u_in.mapping[FirstKeyOf(chain, keys)]

\* type 1 is not a key and neither is the first member 2 of its chain: the
\* second member 3 decides, although 6 and 7 are keys too
C12_Witness ==
    /\ LookupDone
    /\ u_in.layout_type_id = 1
    /\ DOMAIN u_in.mapping = {3, 6, 7}
    /\ u_in.mapping[3] = 2
    /\ ~u_out.raised /\ u_out.index = 2

\* C13: map_type_to_index raises its error, naming the chain it attempted,
\* exactly when neither the type nor any type of its fallback chain is a key
\* of the mapping; nothing is returned then
C13_RaisesIffNoCandidate ==
    LookupDone
        => LET id == u_in.layout_type_id
               keys == DOMAIN u_in.mapping
               chain == StatedChainOf(id)
           IN  /\ u_out.raised
                   <=> (id \notin keys /\ \A i \in DOMAIN chain : chain[i] \notin keys)
               /\ u_out.raised => u_out.chain = chain

C13_Witness ==
    /\ LookupDone
    /\ u_in.layout_type_id = 4
    /\ DOMAIN u_in.mapping = {1, 3, 5, 7}
    /\ u_out.raised
    /\ u_out.chain = <<2, 6>>

ValidateDone == u_fn = "validate" /\ u_pc = "done"

\* C16: in every result of OverflowValidator.validate, is_overflow holds
\* exactly when total_chars exceeds max_capacity, and overflow_amount is
\* max(0, total_chars - max_capacity): false and 0 at capacity, true and 1
\* one character above
C16_OverflowStrictlyAboveCapacity ==
    ValidateDone
        => \A i \in DOMAIN u_out :
               LET res == u_out[i]
                   excess == res.total_chars - res.max_capacity
               IN  /\ res.is_overflow <=> excess > 0
                   /\ res.overflow_amount = IF excess > 0 THEN excess ELSE 0
                   /\ excess = 0 => (~res.is_overflow /\ res.overflow_amount = 0)
                   /\ excess = 1 => (res.is_overflow /\ res.overflow_amount = 1)

\* a slide exactly at the capacity of its type, then one a character above
C16_Witness ==
    /\ ValidateDone
    /\ u_in.slides = <<S_AtCap, S_OverBy1>>
    /\ u_in.catalog = LAYOUT_CATALOG
    /\ u_out[1].total_chars = 120 /\ u_out[1].max_capacity = 120
    /\ ~u_out[1].is_overflow /\ u_out[1].overflow_amount = 0
    /\ u_out[2].total_chars = 121
    /\ u_out[2].is_overflow /\ u_out[2].overflow_amount = 1

\* the characters a slide displays: title, body text (or none), the texts of
\* the bullets of both columns
DisplayedChars(slide) ==
    len(slide.title)
    + (IF slide.body_text = None THEN 0 ELSE len(slide.body_text[1]))
    + SumSeq([j \in DOMAIN slide.bullets |-> len(slide.bullets[j].text)])
    + SumSeq([j \in DOMAIN slide.right_bullets |-> len(slide.right_bullets[j].text)])

\* C17: OverflowValidator.validate returns one result per slide, in order,
\* the i-th (from 0) with slide_index i and with total_chars the length of
\* title, body text and all bullet texts; speaker notes do not count
C17_OneResultPerSlide ==
    ValidateDone
        => /\ Len(u_out) = Len(u_in.slides)
           /\ \A i \in DOMAIN u_out :
                  /\ u_out[i].slide_index = i - 1
                  /\ u_out[i].total_chars = DisplayedChars(u_in.slides[i])

\* two slides with speaker notes, one of them with bullets
C17_Witness ==
    /\ ValidateDone
    /\ u_in.slides = <<S_EmptyBody, S_AtCap>>
    /\ u_in.slides[1].speaker_notes # None /\ u_in.slides[2].speaker_notes # None
    /\ u_out[1].slide_index = 0 /\ u_out[1].total_chars = 80
    /\ u_out[2].slide_index = 1 /\ u_out[2].total_chars = 120

ConstructDone == u_fn = "LayoutIntelligenceSlide" /\ u_pc = "done"

\* C18: a LayoutIntelligenceSlide of layout type 4 is constructed only if
\* both columns have bullets and their numbers differ by at most 2; a
\* difference of exactly 2 is accepted and one of 3 is rejected
C18_TwoColumnBalance ==
    (ConstructDone /\ u_in.layout_type_id = 4)
        => LET n_left == Len(u_in.bullets)
               n_right == Len(u_in.right_bullets)
               diff == IF n_left >= n_right THEN n_left - n_right ELSE n_right - n_left
           IN  /\ ~u_out.raised => (n_left >= 1 /\ n_right >= 1 /\ diff <= 2)
               /\ (diff = 2 /\ n_left >= 1 /\ n_right >= 1 /\ len(u_in.title) >= 1)
                      => ~u_out.raised
               /\ diff = 3 => u_out.raised

\* three bullets on the left and one on the right are accepted
C18_Witness ==
    /\ ConstructDone
    /\ u_in.layout_type_id = 4
    /\ Len(u_in.bullets) = 3 /\ Len(u_in.right_bullets) = 1
    /\ ~u_out.raised

\* C19: has_time(n) is true exactly when deadline - now >= n, equality
\* included, remaining_seconds is deadline - now even when negative, and
\* with a clock that does not go back a has_time(15) that was false is false
\* at every later reading
C19_HasTimeInclusiveMonotone ==
    /\ [](u_fn = "has_time" /\ u_pc = "done"
            => /\ u_out.has_time <=> u_in.deadline - u_in.now >= u_in.min_seconds
               /\ u_out.remaining_seconds = u_in.deadline - u_in.now)
    /\ [][(u_fn = "has_time" /\ u_pc = "again" /\ u_in.min_seconds = 15
              /\ ~u_out.has_time)
              => ~u_out'.has_time]_vars

\* exactly 15 s are left and has_time(15) is true
C19_Witness ==
    /\ u_fn = "has_time" /\ u_pc = "done"
    /\ u_in.min_seconds = 15
    /\ u_in.deadline - u_in.now = 15
    /\ u_out.remaining_seconds = 15
    /\ u_out.has_time

\* the deadline has passed: remaining_seconds is negative
C19_PastDeadline ==
    /\ u_fn = "has_time" /\ u_pc = "done"
    /\ u_out.remaining_seconds < 0
    /\ ~u_out.has_time

ConversionDone == u_fn = "to_slide_content" /\ u_pc = "done"

\* the structured bullets of a SlideContent correspond one to one, in order,
\* to the bullets of the slide, with the same text and level, and are unset
\* when the slide has none
SameBullets(source, target) ==
    IF source = <<>>
    THEN target = None
    ELSE /\ target # None
         /\ Len(target[1]) = Len(source)
         /\ \A j \in DOMAIN source :
                /\ target[1][j].text = source[j].text
                /\ target[1][j].level = source[j].level

\* everything of the conversion but the plain bullet list: index, title,
\* both columns of structured bullets, and no place for the speaker notes
ConvertedFields(slide, layout_index, content) ==
    /\ DOMAIN content = {"layout_index", "title", "bullet_points", "bullets", "bullets_right"}
    /\ content.layout_index = layout_index
    /\ content.title = slide.title
    /\ SameBullets(slide.bullets, content.bullets)
    /\ SameBullets(slide.right_bullets, content.bullets_right)
    /\ slide.speaker_notes # None
           => \A j \in DOMAIN content.bullet_points :
                  content.bullet_points[j] # slide.speaker_notes[1]

ConvertedWithMapping ==
    pc = "done" /\ layout_mapping # None /\ DOMAIN layout_mapping[1] # {}

\* the type is not a key of the mapping but a type of its stated chain is
ResolvedByFallback(id, keys) ==
    /\ id \notin keys
    /\ \E j \in DOMAIN StatedChainOf(id) : StatedChainOf(id)[j] \in keys

\* neither the type nor a type of its stated chain is a key of the mapping
NoCandidate(id, keys) ==
    /\ id \notin keys
    /\ \A j \in DOMAIN StatedChainOf(id) : StatedChainOf(id)[j] \notin keys

C15_FailureDefaultsToFirstLayout ==
    pc = "done"
        => /\ Len(slide_contents) = Len(plan.slides)
           /\ \A i \in DOMAIN plan.slides :
                  slide_contents[i].title = plan.slides[i].title
           /\ ConvertedWithMapping
                  => LET keys == DOMAIN layout_mapping[1]
                         failing == {i \in DOMAIN plan.slides :
                                        NoCandidate(plan.slides[i].layout_type_id, keys)}
                     IN  /\ \A i \in failing : slide_contents[i].layout_index = 0
                         /\ Len(warnings) = Cardinality(failing)

\* the mapper fails for the first slide and the conversion goes on with the
\* second, which gets the layout of its type
C15_Witness ==
    /\ ConvertedWithMapping
    /\ layout_mapping[1] = (3 :> 2)
    /\ Len(plan.slides) = 2
    /\ plan.slides[1].layout_type_id = 2 /\ plan.slides[2].layout_type_id = 3
    /\ Len(warnings) = 1 /\ warnings[1].layout_type_id = 2
    /\ slide_contents[1].layout_index = 0
    /\ slide_contents[2].layout_index = 2

\* C21: every structuring prompt has the raw user text between an opening
\* tag user_content_S and a closing tag user_content_S with the same salt S,
\* a salt that secrets.token_hex produced; requests with the same text may
\* get different salts (C21_Witness)
C21_SaltedDelimiters ==
    u_fn = "_build_content_structuring_prompt"
        => \A i \in DOMAIN u_out :
               /\ Len(u_out[i].open_tag) = 2
               /\ u_out[i].open_tag[1] = "user_content"
               /\ u_out[i].open_tag[2] \in Salts
               /\ u_out[i].close_tag = u_out[i].open_tag
               /\ u_out[i].text = u_in.text

\* two requests with the same text have got different salts
C21_Witness ==
    /\ u_fn = "_build_content_structuring_prompt"
    /\ Len(u_out) >= 2
    /\ u_out[1].text = u_out[2].text
    /\ u_out[1].close_tag[2] # u_out[2].close_tag[2]

\* the stages in the order the specification states them
StatedStageOrder ==
    <<"VALIDATING_INPUT", "STRUCTURING", "MAPPING_LAYOUTS", "CHECKING_OVERFLOW",
      "RESOLVING_OVERFLOW", "CONVERTING", "DONE", "FAILED">>

\* the stages with the building of the mapping before the structuring call
MappingFirstStageOrder ==
    <<"VALIDATING_INPUT", "MAPPING_LAYOUTS", "STRUCTURING", "CHECKING_OVERFLOW",
      "RESOLVING_OVERFLOW", "CONVERTING", "DONE", "FAILED">>

RankIn(order, stage) == CHOOSE k \in DOMAIN order : order[k] = stage

\* seq follows the order: a later entry never has a lower rank, only the
\* resolution stage is entered more than once and at most twice, a stage
\* other than FAILED is entered only after every stage of `required` that
\* precedes it, and DONE and FAILED exclude each other
FollowsOrder(order, required, seq) ==
    /\ \A i \in DOMAIN seq : seq[i] \in Range(order)
    /\ \A i, j \in DOMAIN seq :
           i < j => /\ RankIn(order, seq[i]) <= RankIn(order, seq[j])
                    /\ seq[i] = seq[j] => seq[i] = "RESOLVING_OVERFLOW"
    /\ Cardinality({i \in DOMAIN seq : seq[i] = "RESOLVING_OVERFLOW"}) <= 2
    /\ \A i \in DOMAIN seq :
           seq[i] # "FAILED"
               => \A st \in required :
                      RankIn(order, st) < RankIn(order, seq[i])
                          => \E j \in 1..(i - 1) : seq[j] = st
    /\ ~("DONE" \in Range(seq) /\ "FAILED" \in Range(seq))

\* a run that has ended has ended in DONE or in FAILED
EndsWhereItEnded ==
    /\ pc = "done" => stages # <<>> /\ stages[Len(stages)] = "DONE"
    /\ pc = "failed" => stages # <<>> /\ stages[Len(stages)] = "FAILED"

\* C22 as stated: every run enters VALIDATING_INPUT, STRUCTURING,
\* MAPPING_LAYOUTS, CHECKING_OVERFLOW, RESOLVING_OVERFLOW (0 to 2 times),
\* CONVERTING, DONE in this order, and a failure ends it in FAILED
C22_StageOrderAsStated ==
    /\ FollowsOrder(StatedStageOrder,
                    {"VALIDATING_INPUT", "STRUCTURING", "MAPPING_LAYOUTS",
                     "CHECKING_OVERFLOW", "CONVERTING"},
                    stages)
    /\ EndsWhereItEnded

\* C22 amended: the order is VALIDATING_INPUT, MAPPING_LAYOUTS, STRUCTURING,
\* CHECKING_OVERFLOW, RESOLVING_OVERFLOW (0 to 2 times), CONVERTING, DONE;
\* the mapping is built before the structuring call, and exactly when
\* template layouts were given; a failure ends the run in FAILED
C22_StageOrderMappingFirst ==
    /\ FollowsOrder(MappingFirstStageOrder,
                    {"VALIDATING_INPUT", "STRUCTURING", "CHECKING_OVERFLOW", "CONVERTING"},
                    stages)
    /\ "STRUCTURING" \in Range(stages)
           => ("MAPPING_LAYOUTS" \in Range(stages) <=> template_layouts # <<>>)
    /\ "MAPPING_LAYOUTS" \in Range(stages) => "STRUCTURING" \in Range(stages)
    /\ EndsWhereItEnded

\* a run with a template and two resolution rounds
C22_Witness ==
    /\ pc = "done"
    /\ stages = <<"VALIDATING_INPUT", "MAPPING_LAYOUTS", "STRUCTURING",
                  "CHECKING_OVERFLOW", "RESOLVING_OVERFLOW", "RESOLVING_OVERFLOW",
                  "CONVERTING", "DONE">>

\* positions of the invocations that returned a schema-valid plan
ValidReceived == {k \in DOMAIN received : received[k].outcome = "valid"}

\* the slides of the most recent schema-valid plan
LastValidSlides ==
    received[CHOOSE k \in ValidReceived : \A j \in ValidReceived : j <= k].slides

\* title and overflow amount of the slides over capacity, in order
OverflowLines(slides) ==
    LET over == SelectSeq([i \in DOMAIN slides |->
                              [title |-> slides[i].title,
                               amount |-> DisplayedChars(slides[i])
                                          - CapacityOf(LAYOUT_CATALOG, slides[i].layout_type_id)]],
                          LAMBDA x : x.amount > 0)
    IN  over

\* C23: at most one LLM invocation is in flight; no resolution invocation
\* starts before a structuring invocation has returned a schema-valid plan;
\* the prompt of a resolution round carries the slides and the overflow
\* results of the plan returned by the round just before it
C23_SequentialRounds ==
    /\ llm_calls - Len(received) = IF pc = "awaiting" THEN 1 ELSE 0
    /\ \A k \in DOMAIN received :
           received[k].call = "resolution"
               => \E j \in 1..(k - 1) :
                      received[j].call = "structuring" /\ received[j].outcome = "valid"
    /\ (pc = "awaiting" /\ call = "resolution")
           => /\ \E j \in ValidReceived : received[j].call = "structuring"
              /\ prompt.slides = LastValidSlides
              /\ [k \in DOMAIN prompt.overflow_summary |->
                     [title |-> prompt.overflow_summary[k].title,
                      amount |-> prompt.overflow_summary[k].overflow_amount]]
                     = OverflowLines(LastValidSlides)

\* the second resolution round is in flight with the plan the first round
\* returned, not the one of the structuring call
C23_Witness ==
    /\ pc = "awaiting"
    /\ call = "resolution"
    /\ resolution_attempts = 1
    /\ Len(received) = 2
    /\ received[1].slides = <<S_Fit, S_Over>>
    /\ received[2].slides = <<S_OverBy1, S_TwoCol>>
    /\ prompt.slides = <<S_OverBy1, S_TwoCol>>
    /\ prompt.overflow_summary[1].title = S_OverBy1.title

\* C24: behind the endpoint an LLM invocation that has started is allowed
\* to finish: none is ever cancelled, whatever the clock shows while it is
\* in flight
C24_InFlightNeverCancelled ==
    via = "endpoint"
        => \A k \in DOMAIN received : received[k].outcome # "cancelled"

IsResolution(x) == x.call = "resolution"

\* what the invocations of the resolution stage ended with
ResolutionReceived == SelectSeq(received, IsResolution)

\* C25: the resolution loop runs at most 2 rounds of at most 2 invocations
\* each (an attempt and one retry); after every round the overflow check is
\* run again on the whole revised plan; no invocation follows a round whose
\* plan has no slide over capacity
C25_ResolutionBounded ==
    /\ resolution_attempts <= 2
    /\ Cardinality({k \in DOMAIN received :
                       IsResolution(received[k]) /\ received[k].attempt = 0}) <= 2
    /\ \A k \in DOMAIN received :
           IsResolution(received[k]) => received[k].attempt \in {0, 1}
    /\ Len(ResolutionReceived) <= 4
    /\ (pc = "resolve_loop" /\ resolution_attempts >= 1)
           => /\ plan.slides = LastValidSlides
              /\ Len(overflow_results) = Len(plan.slides)
              /\ \A i \in DOMAIN overflow_results :
                     /\ overflow_results[i].slide_index = i - 1
                     /\ overflow_results[i].is_overflow
                            <=> DisplayedChars(plan.slides[i])
                                    > CapacityOf(LAYOUT_CATALOG, plan.slides[i].layout_type_id)
              /\ has_overflow <=> OverflowLines(plan.slides) # <<>>
    /\ \A k \in DOMAIN received :
           (IsResolution(received[k]) /\ received[k].outcome = "valid"
            /\ received[k].n_overflow = 0)
               => k = Len(received) /\ llm_calls = Len(received)

\* two rounds of two invocations each, the second round ending the overflow
C25_Witness ==
    /\ pc = "done"
    /\ resolution_attempts = 2
    /\ Len(ResolutionReceived) = 4
    /\ ResolutionReceived[2].outcome = "valid" /\ ResolutionReceived[2].n_overflow = 1
    /\ ResolutionReceived[4].outcome = "valid" /\ ResolutionReceived[4].n_overflow = 0

\* the characters that separate the keywords of a type name
KeywordSeparators == {" ", "/", "-"}

\* the keywords of a name: its maximal runs of non-separators, in lower
\* case, that are longer than 3 characters
KeywordsLongerThan3(name) ==
    {[i \in 1..(b - a + 1) |-> LowerChar(name[a + i - 1])] :
        <<a, b>> \in {ab \in (DOMAIN name) \X (DOMAIN name) :
                        /\ ab[2] - ab[1] + 1 > 3
                        /\ \A i \in ab[1]..ab[2] : name[i] \notin KeywordSeparators
                        /\ ab[1] = 1 \/ name[ab[1] - 1] \in KeywordSeparators
                        /\ ab[2] = Len(name) \/ name[ab[2] + 1] \in KeywordSeparators}}

\* word occurs in name, letter case ignored
OccursIgnoringCase(word, name) ==
    \E o \in 0..(Len(name) - Len(word)) :
        \A i \in DOMAIN word : LowerChar(name[o + i]) = LowerChar(word[i])

\* C26: the score of a layout for a type is 10 for every entry of the
\* type's primary placeholders (with multiplicity) whose tag is among the
\* layout's placeholder types, minus 3 times the absolute difference of the
\* numbers of placeholders, plus 5 once when a keyword of the type's name
\* longer than 3 characters occurs in the layout's name, letter case ignored
C26_ScoreFormula ==
    (u_fn = "_score_layout_match" /\ u_pc = "done")
        => LET L == u_in.layout
               T == u_in.layout_type
               hits == Cardinality({i \in DOMAIN T.primary_placeholders :
                                       T.primary_placeholders[i] \in Range(L.placeholders)})
               n_L == Len(L.placeholders)
               n_T == Len(T.primary_placeholders)
               diff == IF n_L >= n_T THEN n_L - n_T ELSE n_T - n_L
               named == \E w \in KeywordsLongerThan3(T.name) : OccursIgnoringCase(w, L.name)
           IN  u_out = 10 * hits - 3 * diff + (IF named THEN 5 ELSE 0)

\* both keywords of "Title Slide" occur in the layout's name: 20 for the two
\* placeholders and 5 for the name
C26_Witness ==
    /\ u_fn = "_score_layout_match" /\ u_pc = "done"
    /\ u_in.layout.name = LName_TitleSlide
    /\ u_in.layout_type.id = 1
    /\ Cardinality(KeywordsLongerThan3(u_in.layout_type.name)) = 2
    /\ u_out = 25

\* an entry that occurs twice among the type's placeholders counts twice
C26_Multiplicity ==
    /\ u_fn = "_score_layout_match" /\ u_pc = "done"
    /\ u_in.layout.name = LName_Content
    /\ u_in.layout_type.id = 4
    /\ u_out = 27

TextBodyPlaceholders(placeholders) ==
    SelectSeq([i \in DOMAIN placeholders |-> i],
              LAMBDA i : placeholders[i].type \in {"BODY", "OBJECT"}
                         /\ placeholders[i].has_text_frame)

\* the paragraphs a list of BulletPoint is written as
ParagraphsOf(points) ==
    [i \in DOMAIN points |-> [text |-> points[i].text, level |-> points[i].level]]

\* C28: when generate processes a slide whose bullets_right is set on a
\* layout with two placeholders that take body text, the left bullets are
\* in the first of them and the right-column bullets in the second
C28_RightColumnWritten ==
    (/\ u_fn = "generate" /\ u_pc = "done"
     /\ u_in.content.bullets_right # None
     /\ Len(TextBodyPlaceholders(u_in.placeholders)) = 2)
        => LET body == TextBodyPlaceholders(u_in.placeholders)
           IN  /\ u_out[body[1]] = ParagraphsOf(u_in.content.bullets[1])
               /\ u_out[body[2]] = ParagraphsOf(u_in.content.bullets_right[1])

\* process() runs with LayoutTypeMapper itself and a non-empty layout list
RealMapperWithTemplate == pc # "off" /\ mapper = None /\ template_layouts # <<>>

\* C29: with the real LayoutTypeMapper and a non-empty layout list the
\* mapping has the 7 catalog ids as keys and every slide has a type 1..7, so
\* every slide is resolved by direct lookup: no fallback, no mapper error,
\* and the warnings returned are empty
C29_DirectLookupOnly ==
    RealMapperWithTemplate
        => /\ layout_mapping # None => DOMAIN layout_mapping[1] = 1..7
           /\ \A i \in DOMAIN plan.slides : plan.slides[i].layout_type_id \in 1..7
           /\ pc = "done"
                  => /\ warnings = <<>>
                     /\ \A i \in DOMAIN plan.slides :
                            LET id == plan.slides[i].layout_type_id
                                looked_up == map_type_to_index(id, layout_mapping[1])
                            IN  /\ ~looked_up.raised
                                /\ looked_up.fallback_type = 0
                                /\ slide_contents[i].layout_index = layout_mapping[1][id]

\* a result with a two-column slide, converted through the mapping built
\* from the template
C29_Witness ==
    /\ RealMapperWithTemplate
    /\ pc = "done"
    /\ \E i \in DOMAIN plan.slides :
           /\ plan.slides[i].layout_type_id = 4
           /\ slide_contents[i].layout_index = layout_mapping[1][4]
    /\ warnings = <<>>

\* the request has been answered: a result, an exception, or a rejection
\* by the endpoint
Terminated == pc \in {"done", "failed", "rejected"}

\* C30: when every LLM invocation eventually returns, every run ends, and
\* it has made at most 7 LLM invocations: at most 3 of the structuring call
\* and at most 2 in each of at most 2 resolution rounds, one at a time,
\* whatever the responses and the clock are
C30_TerminatesWithinSevenCalls ==
    /\ [](/\ llm_calls <= 7
          /\ Len(StructuringReceived) <= 3
          /\ Len(ResolutionReceived) <= 4
          /\ resolution_attempts <= 2
          /\ \A i \in DOMAIN received :
                 received[i].attempt <= (IF received[i].call = "resolution"
                                         THEN 1 ELSE 2)
          /\ llm_calls - Len(received) \in {0, 1})
    /\ <>Terminated

\* a run that ended after 3 structuring invocations and 2 rounds of 2
C30_Witness ==
    /\ pc = "done"
    /\ llm_calls = 7
    /\ Len(StructuringReceived) = 3
    /\ Len(ResolutionReceived) = 4

====
